---- MODULE Spec2Model ----
(***************************************************************************)
(* The data-access layer of vocabularyDB (firestore-service): typed CRUD   *)
(* over a document store, with a process-local word cache and tag cache.   *)
(*                                                                         *)
(* The store holds the subtree of one signed-in user:                      *)
(*   users/{User}/wordbooks/{b}            -> wordbooks[b]                 *)
(*   users/{User}/wordbooks/{b}/words/{w}  -> words[<<b, w>>]              *)
(*   users/{User}/posTags/{t}              -> posTags[t]                   *)
(* A document that does not exist is not in the DOMAIN of its function.    *)
(* Document ids are naturals; the ids the store assigns (addDoc, doc())    *)
(* are fresh, taken from counters.  A Timestamp of t is the tuple <<t>>,   *)
(* the null value is <<>>.                                                 *)
(*                                                                         *)
(* Every await of the source is a store call that can fail: an operation   *)
(* is one action, and its parameter ok tells whether its store calls       *)
(* succeed (for multi-call operations a further parameter tells how far    *)
(* the writes got).                                                        *)
(***************************************************************************)
EXTENDS Integers, Sequences, FiniteSets, TLC

VARIABLES
    wordbooks,    \* store: wordbook documents of the user
    words,        \* store: word documents, by <<wordbook id, word id>>
    posTags,      \* store: part-of-speech tag documents of the user
    wordCache,    \* process: makeCacheKey(user, wordbook) -> Word[]
    posTagCache,  \* process: user -> PartOfSpeechTag[]
    now,          \* the clock Timestamp.now() reads
    nextWb,       \* next wordbook id the store hands out
    nextWord,     \* next word id the store hands out
    nextTag,      \* next tag id the store hands out
    op,           \* the last operation: name, wordbook, argument, outcome
    ret,          \* what the last operation returned to its caller
    trashedOnce,  \* history: the wordbooks a trashWordbook call has trashed
    calls,        \* process: the async calls suspended at an await
    user,         \* WordList: useAuth().user (null until signed in)
    uiWords,      \* WordList: the words state, when it is an array of its own
    uiShared,     \* WordList: the words state is the cache entry's array object
    loading,      \* WordList: loading
    error,        \* WordList: error
    createOpen,   \* WordList: createOpen
    uiNewWord,    \* WordList: newWord, the text of the create form
    creating,     \* WordList: creating
    editTarget,   \* WordList: editTarget
    editWord,     \* WordList: editWord, the text of the edit form
    updating,     \* WordList: updating
    deletingId    \* WordList: deletingId

layer == <<wordbooks, words, posTags, wordCache, posTagCache, now,
           nextWb, nextWord, nextTag, op, ret, trashedOnce>>

component == <<user, uiWords, uiShared, loading, error, createOpen, uiNewWord,
               creating, editTarget, editWord, updating, deletingId>>

vars == <<layer, calls, component>>

store == <<wordbooks, words, posTags>>
caches == <<wordCache, posTagCache>>

\* ---------------------------------------------------------------- bounds
MaxWordbooks == 2
MaxWords == 2
MaxTags == 2
MaxTime == 1
MaxBatch == 2
MaxCalls == 2

\* ---------------------------------------------------------------- values
User == "u1"
Null == <<>>
PosLists == {<<>>, <<1>>, <<2, 1>>}

WbIds == 1..(nextWb - 1)
WordIds == 1..(nextWord - 1)
TagIds == 1..(nextTag - 1)

\* ---------------------------------------------------------------- helpers
Min(S) == CHOOSE x \in S : \A y \in S : x <= y

\* the elements of a set of ids in the store's native (id) order
RECURSIVE SortedSeq(_)
SortedSeq(S) ==
    IF S = {} THEN <<>> ELSE <<Min(S)>> \o SortedSeq(S \ {Min(S)})

Range(s) == {s[i] : i \in 1..Len(s)}

Ids(list) == {list[i].id : i \in 1..Len(list)}

\* { ...w, ...d }: the fields of d override those of w
Merge(w, d) ==
    [f \in DOMAIN w \cup DOMAIN d |-> IF f \in DOMAIN d THEN d[f] ELSE w[f]]

Without(f, S) == [x \in DOMAIN f \ S |-> f[x]]

\* { id: docSnap.id, ...docSnap.data() }: an id field of the data, when the
\* document has one, overrides the document id
DocWithId(id, data) == Merge([id |-> id], data)

\* `${userId}_${wordbookId}`: user ids and document ids hold no underscore,
\* so the key determines the pair
makeCacheKey(userId, wordbookId) == <<userId, wordbookId>>

WordPaths(b) == {p \in DOMAIN words : p[1] = b}

\* getDocs(collection(.., wordbookId, "words")) read into Word[], the
\* word documents being ws
ReadWordsIn(ws, b) ==
    LET ids == SortedSeq({p[2] : p \in {q \in DOMAIN ws : q[1] = b}})
    IN  [i \in 1..Len(ids) |-> DocWithId(ids[i], ws[<<b, ids[i]>>])]

ReadWords(b) == ReadWordsIn(words, b)

\* getDocs(collection(.., "posTags")) read into PartOfSpeechTag[]
ReadTags ==
    LET ids == SortedSeq(DOMAIN posTags)
    IN  [i \in 1..Len(ids) |-> DocWithId(ids[i], posTags[ids[i]])]

\* what the caller of an async function gets: the value, or the rejection
\* of the store call that failed (no operation catches or retries)
Rejected == [rejected |-> TRUE]

\* a resolved promise carrying no document: Promise<void>, or the null of
\* getWordbook
Void == [void |-> TRUE]

\* a resolved promise carrying one document / an array of documents
OneDoc(d) == [doc |-> d]

DocList(l) == [list |-> l]

Returned(ok, value) == IF ok THEN value ELSE Rejected

Op(name, wb, arg, ok) == [name |-> name, wb |-> wb, arg |-> arg, ok |-> ok]

Init ==
    /\ wordbooks = <<>>
    /\ words = <<>>
    /\ posTags = <<>>
    /\ wordCache = <<>>
    /\ posTagCache = <<>>
    /\ now = 0
    /\ nextWb = 1
    /\ nextWord = 1
    /\ nextTag = 1
    /\ op = Op("init", 0, 0, TRUE)
    /\ ret = Void
    /\ trashedOnce = {}
    /\ calls = {}
    /\ user = Null
    /\ uiWords = <<>>
    /\ uiShared = FALSE
    /\ loading = TRUE
    /\ error = Null
    /\ createOpen = FALSE
    /\ uiNewWord = <<>>
    /\ creating = FALSE
    /\ editTarget = Null
    /\ editWord = <<>>
    /\ updating = FALSE
    /\ deletingId = Null

\* an operation of the layer called on its own and run to its end in one
\* step: the suspended calls and the WordList component stay as they are
Direct == UNCHANGED <<calls, component>>

\* ------------------------------------------------------------------ words
\* the document createWord adds: { ...wordData, wordbookId, createdAt,
\* reviewDate: null, studyCount: 0 } (the data carries no id field)
NewWordDoc(d, b, t) ==
    [word |-> d.word, partOfSpeech |-> d.partOfSpeech,
     mastery |-> d.mastery, wordbookId |-> b, createdAt |-> <<t>>,
     reviewDate |-> Null, studyCount |-> 0]

\* the Word createWord returns: { id: docRef.id, ...wordData, wordbookId,
\* createdAt: Timestamp.now(), reviewDate: null, studyCount: 0 }
NewWord(id, d, b, t) ==
    [id |-> id, word |-> d.word, partOfSpeech |-> d.partOfSpeech,
     mastery |-> d.mastery, wordbookId |-> b, createdAt |-> <<t>>,
     reviewDate |-> Null, studyCount |-> 0]

\* the Word bulkImportWords builds for one item; it is both the document
\* written (id field included) and the Word returned
ImportedWord(id, d, b, t) ==
    [id |-> id, word |-> d.word, partOfSpeech |-> d.partOfSpeech,
     mastery |-> d.mastery, wordbookId |-> b, createdAt |-> <<t>>,
     reviewDate |-> Null, studyCount |-> 0]

\* mutant of CachePush: an absent entry is initialised with the pushed Words
CachePushOrInit(key, ws) ==
    IF key \in DOMAIN wordCache
    THEN [wordCache EXCEPT ![key] = @ \o ws]
    ELSE wordCache @@ (key :> ws)

\* wordCache[key].push(...ws) when the entry exists
CachePush(key, ws) ==
    IF key \in DOMAIN wordCache
    THEN [wordCache EXCEPT ![key] = @ \o ws]
    ELSE wordCache

\* mutant of CacheMerge: { ...updateData } without the spread of w, the
\* other fields of the cached Word are dropped
CacheOverwrite(key, ids, d) ==
    IF key \in DOMAIN wordCache
    THEN [wordCache EXCEPT ![key] =
             [i \in 1..Len(@) |->
                 IF @[i].id \in ids THEN Merge([id |-> @[i].id], d) ELSE @[i]]]
    ELSE wordCache

\* mutant of CacheMerge: the id test is lost, every cached Word is merged
CacheMergeAll(key, ids, d) ==
    IF key \in DOMAIN wordCache
    THEN [wordCache EXCEPT ![key] = [i \in 1..Len(@) |-> Merge(@[i], d)]]
    ELSE wordCache

\* wordCache[key] = wordCache[key].map(w => w.id === wordId ? {...w, ...d} : w)
CacheMerge(key, ids, d) ==
    IF key \in DOMAIN wordCache
    THEN [wordCache EXCEPT ![key] =
             [i \in 1..Len(@) |-> IF @[i].id \in ids THEN Merge(@[i], d) ELSE @[i]]]
    ELSE wordCache

\* wordCache[key] = wordCache[key].filter(w => !ids.includes(w.id))
CacheRemove(key, ids) ==
    IF key \in DOMAIN wordCache
    THEN [wordCache EXCEPT ![key] = SelectSeq(@, LAMBDA w : w.id \notin ids)]
    ELSE wordCache

\* what getWordsByWordbookId(User, b) returns when called in this state
\* (its read, if it issues one, succeeding)
ListedWords(cache, ws, b) ==
    IF makeCacheKey(User, b) \in DOMAIN cache
    THEN cache[makeCacheKey(User, b)]
    ELSE ReadWordsIn(ws, b)

GetWordsResult(b) == ListedWords(wordCache, words, b)

\* mutant of getWordsByWordbookId: the cache test is lost, every call reads
GetWordsAlwaysRead(b, ok) ==
    LET key == makeCacheKey(User, b) IN
    /\ op' = Op("getWordsByWordbookId", b, 1, ok)
    /\ ret' = Returned(ok, DocList(ReadWords(b)))
    /\ wordCache' = IF ok
                    THEN [k \in DOMAIN wordCache \cup {key} |->
                             IF k = key THEN ReadWords(b) ELSE wordCache[k]]
                    ELSE wordCache
    /\ UNCHANGED <<store, posTagCache, now, nextWb, nextWord, nextTag, trashedOnce>>

\* getWordsByWordbookId: a cache hit returns the entry and reads nothing;
\* a miss reads the collection and installs the list read.
\* op.arg is the number of store reads the call issued.
GetWordsByWordbookId(b, ok) ==
    LET key == makeCacheKey(User, b) IN
    /\ IF key \in DOMAIN wordCache
       THEN /\ ok
            /\ ret' = DocList(wordCache[key])
            /\ op' = Op("getWordsByWordbookId", b, 0, TRUE)
            /\ UNCHANGED wordCache
       ELSE IF ok
       THEN /\ wordCache' = wordCache @@ (key :> ReadWords(b))
            /\ ret' = DocList(ReadWords(b))
            /\ op' = Op("getWordsByWordbookId", b, 1, TRUE)
       ELSE /\ ret' = Rejected
            /\ op' = Op("getWordsByWordbookId", b, 1, FALSE)
            /\ UNCHANGED wordCache
    /\ UNCHANGED <<store, posTagCache, now, nextWb, nextWord, nextTag, trashedOnce>>

\* mutant of createWord: the returned Word is stamped before the store
\* insert, the stored document after it
CreateWordEarlyStamp(b, d, t1, t2, ok) ==
    LET key == makeCacheKey(User, b)
        id == nextWord
        newWord == NewWord(id, d, b, t1)
    IN
    /\ nextWord <= MaxWords
    /\ now <= t1 /\ t1 <= t2 /\ t2 <= MaxTime
    /\ op' = Op("createWord", b, id, ok)
    /\ IF ok
       THEN /\ words' = words @@ (<<b, id>> :> NewWordDoc(d, b, t2))
            /\ wordCache' = CachePush(key, <<newWord>>)
            /\ ret' = OneDoc(newWord)
            /\ nextWord' = nextWord + 1
            /\ now' = t2
       ELSE /\ t2 = t1
            /\ now' = t1
            /\ ret' = Rejected
            /\ UNCHANGED <<words, wordCache, nextWord>>
    /\ UNCHANGED <<wordbooks, posTags, posTagCache, nextWb, nextTag, trashedOnce>>

\* createWord: t1 is the clock reading written to the store, t2 the later
\* reading put into the returned Word.
CreateWord(b, d, t1, t2, ok) ==
    LET key == makeCacheKey(User, b)
        id == nextWord
        newWord == NewWord(id, d, b, t2)
    IN
    /\ nextWord <= MaxWords
    /\ now <= t1 /\ t1 <= t2 /\ t2 <= MaxTime
    /\ op' = Op("createWord", b, id, ok)
    /\ IF ok
       THEN /\ words' = words @@ (<<b, id>> :> NewWordDoc(d, b, t1))
            /\ wordCache' = CachePush(key, <<newWord>>)
            /\ ret' = OneDoc(newWord)
            /\ nextWord' = nextWord + 1
            /\ now' = t2
       ELSE /\ t2 = t1
            /\ now' = t1
            /\ ret' = Rejected
            /\ UNCHANGED <<words, wordCache, nextWord>>
    /\ UNCHANGED <<wordbooks, posTags, posTagCache, nextWb, nextTag, trashedOnce>>

\* mutant of updateWord: the cache is rewritten before the store call is
\* awaited
UpdateWordCacheFirst(b, wordId, d, ok) ==
    LET key == makeCacheKey(User, b) IN
    /\ ok => <<b, wordId>> \in DOMAIN words
    /\ op' = Op("updateWord", b, wordId, ok)
    /\ ret' = Returned(ok, Void)
    /\ words' = IF ok THEN [words EXCEPT ![<<b, wordId>>] = Merge(@, d)] ELSE words
    /\ wordCache' = CacheMerge(key, {wordId}, d)
    /\ UNCHANGED <<wordbooks, posTags, posTagCache, now, nextWb, nextWord,
                   nextTag, trashedOnce>>

\* updateDoc(ref, data) fails when the document does not exist
UpdateWord(b, wordId, d, ok) ==
    LET key == makeCacheKey(User, b) IN
    /\ ok => <<b, wordId>> \in DOMAIN words
    /\ op' = Op("updateWord", b, wordId, ok)
    /\ ret' = Returned(ok, Void)
    /\ IF ok
       THEN /\ words' = [words EXCEPT ![<<b, wordId>>] = Merge(@, d)]
            /\ wordCache' = CacheMerge(key, {wordId}, d)
       ELSE UNCHANGED <<words, wordCache>>
    /\ UNCHANGED <<wordbooks, posTags, posTagCache, now, nextWb, nextWord, nextTag, trashedOnce>>

\* deleteDoc(ref) succeeds whether or not the document exists
DeleteWord(b, wordId, ok) ==
    LET key == makeCacheKey(User, b) IN
    /\ op' = Op("deleteWord", b, wordId, ok)
    /\ ret' = Returned(ok, Void)
    /\ IF ok
       THEN /\ words' = Without(words, {<<b, wordId>>})
            /\ wordCache' = CacheRemove(key, {wordId})
       ELSE UNCHANGED <<words, wordCache>>
    /\ UNCHANGED <<wordbooks, posTags, posTagCache, now, nextWb, nextWord, nextTag, trashedOnce>>

\* ------------------------------------------------------------ batched writes
ResetFields == [mastery |-> 0, studyCount |-> 0, reviewDate |-> Null]

\* a write batch of updates is rejected as a whole when one of its
\* documents does not exist
BatchCanUpdate(b, ids) == \A id \in ids : <<b, id>> \in DOMAIN words

\* batch.set(docRef, word) for each new word; batch.commit()
BatchSet(b, newWords, ok) ==
    IF ok
    THEN words @@ [p \in {<<b, newWords[i].id>> : i \in 1..Len(newWords)} |->
                      (CHOOSE w \in Range(newWords) : w.id = p[2])]
    ELSE words

\* mutant of BatchUpdate: one updateDoc per id instead of a batch, so the
\* updates of the documents that exist are applied when another one fails
BatchUpdateEach(b, ids, d, ok) ==
    [p \in DOMAIN words |->
        IF p[1] = b /\ p[2] \in ids THEN Merge(words[p], d) ELSE words[p]]

\* batch.update(ref, data) for each id; batch.commit()
BatchUpdate(b, ids, d, ok) ==
    IF ok
    THEN [p \in DOMAIN words |->
             IF p[1] = b /\ p[2] \in ids THEN Merge(words[p], d) ELSE words[p]]
    ELSE words

\* batch.delete(ref) for each id; batch.commit()
BatchDelete(b, ids, ok) ==
    IF ok THEN Without(words, {<<b, id>> : id \in ids}) ELSE words

\* mutant of ImportedWords: Timestamp.now() read once per item
ImportedWordsOwnStamp(b, ds, t) ==
    [i \in 1..Len(ds) |-> ImportedWord(nextWord + i - 1, ds[i], b, t + i - 1)]

\* the Words of one bulkImportWords call: one fresh id per item, one
\* shared createdAt
ImportedWords(b, ds, t) ==
    [i \in 1..Len(ds) |-> ImportedWord(nextWord + i - 1, ds[i], b, t)]

\* if (wordCache[key]) wordCache[key].push(...newWords)
\* else wordCache[key] = [...newWords]
CacheImport(key, newWords) ==
    IF key \in DOMAIN wordCache
    THEN CachePush(key, newWords)
    ELSE wordCache @@ (key :> newWords)

BulkImportWords(b, ds, t, ok) ==
    LET key == makeCacheKey(User, b)
        newWords == ImportedWords(b, ds, t)
    IN
    /\ nextWord + Len(ds) - 1 <= MaxWords
    /\ now <= t /\ t <= MaxTime
    /\ op' = Op("bulkImportWords", b, Len(ds), ok)
    /\ now' = t
    /\ words' = BatchSet(b, newWords, ok)
    /\ IF ok
       THEN /\ wordCache' = CacheImport(key, newWords)
            /\ ret' = DocList(newWords)
            /\ nextWord' = nextWord + Len(ds)
       ELSE /\ ret' = Rejected
            /\ UNCHANGED <<wordCache, nextWord>>
    /\ UNCHANGED <<wordbooks, posTags, posTagCache, nextWb, nextTag, trashedOnce>>

\* the array ids is used through forEach and includes only: a set
ResetWordsProgress(b, ids, ok) ==
    LET key == makeCacheKey(User, b) IN
    /\ ok => BatchCanUpdate(b, ids)
    /\ op' = Op("resetWordsProgress", b, ids, ok)
    /\ ret' = Returned(ok, Void)
    /\ words' = BatchUpdate(b, ids, ResetFields, ok)
    /\ wordCache' = IF ok THEN CacheMerge(key, ids, ResetFields) ELSE wordCache
    /\ UNCHANGED <<wordbooks, posTags, posTagCache, now, nextWb, nextWord, nextTag, trashedOnce>>

BulkDeleteWords(b, ids, ok) ==
    LET key == makeCacheKey(User, b) IN
    /\ op' = Op("bulkDeleteWords", b, ids, ok)
    /\ ret' = Returned(ok, Void)
    /\ words' = BatchDelete(b, ids, ok)
    /\ wordCache' = IF ok THEN CacheRemove(key, ids) ELSE wordCache
    /\ UNCHANGED <<wordbooks, posTags, posTagCache, now, nextWb, nextWord, nextTag, trashedOnce>>

\* -------------------------------------------------------------- wordbooks
\* the Wordbook records of the documents whose ids are in S, in id order
ReadWordbooks(S) ==
    LET ids == SortedSeq(S)
    IN  [i \in 1..Len(ids) |-> DocWithId(ids[i], wordbooks[ids[i]])]

\* mutant of NotTrashed: the trashed test is lost
AllWordbooks == DOMAIN wordbooks

NotTrashed == {b \in DOMAIN wordbooks : ~wordbooks[b].trashed}
Trashed == {b \in DOMAIN wordbooks : wordbooks[b].trashed}

\* what getWordbooksByUserId(User) returns when its read succeeds
ListWordbooks == ReadWordbooks(NotTrashed)

\* what getTrashedWordbooksByUserId(User) returns when its read succeeds
ListTrashed == ReadWordbooks(Trashed)

\* what getWordbook(User, b) returns when its read succeeds
WordbookOrNull(b) ==
    IF b \in DOMAIN wordbooks THEN DocWithId(b, wordbooks[b]) ELSE Null

WordbookDoc(name, t) ==
    [name |-> name, userId |-> User, createdAt |-> <<t>>,
     trashed |-> FALSE, trashedAt |-> Null]

ReadOnly(name, wb, value, ok) ==
    /\ op' = Op(name, wb, 1, ok)
    /\ ret' = Returned(ok, value)
    /\ UNCHANGED <<store, caches, now, nextWb, nextWord, nextTag, trashedOnce>>

GetWordbooksByUserId(ok) == ReadOnly("getWordbooksByUserId", 0, DocList(ListWordbooks), ok)

GetTrashedWordbooksByUserId(ok) ==
    ReadOnly("getTrashedWordbooksByUserId", 0, DocList(ListTrashed), ok)

GetWordbook(b, ok) ==
    ReadOnly("getWordbook", b,
             IF b \in DOMAIN wordbooks THEN OneDoc(WordbookOrNull(b)) ELSE Void,
             ok)

CreateWordbook(name, t1, t2, ok) ==
    /\ nextWb <= MaxWordbooks
    /\ now <= t1 /\ t1 <= t2 /\ t2 <= MaxTime
    /\ op' = Op("createWordbook", nextWb, name, ok)
    /\ IF ok
       THEN /\ wordbooks' = wordbooks @@ (nextWb :> WordbookDoc(name, t1))
            /\ ret' = OneDoc(DocWithId(nextWb, WordbookDoc(name, t2)))
            /\ nextWb' = nextWb + 1
            /\ now' = t2
       ELSE /\ t2 = t1
            /\ now' = t1
            /\ ret' = Rejected
            /\ UNCHANGED <<wordbooks, nextWb>>
    /\ UNCHANGED <<words, posTags, caches, nextWord, nextTag, trashedOnce>>

\* the store after deleteWordbook(User, b) got as far as deleting the
\* child documents gone and, when final, the wordbook document
AfterDeleteWordbooks(gone, finals) ==
    <<Without(wordbooks, finals), Without(words, gone)>>

\* mutant of deleteWordbook: the deletes are applied together or not at all
DeleteWordbookAtomic(b, gone, final) ==
    /\ gone \subseteq WordPaths(b)
    /\ final => gone = WordPaths(b)
    /\ op' = Op("deleteWordbook", b, gone, final)
    /\ ret' = Returned(final, Void)
    /\ wordbooks' = IF final THEN Without(wordbooks, {b}) ELSE wordbooks
    /\ words' = IF final THEN Without(words, gone) ELSE words
    /\ UNCHANGED <<posTags, caches, now, nextWb, nextWord, nextTag, trashedOnce>>

\* deleteWordbook: reads the child Words, deletes each of them (each delete
\* succeeds or fails on its own) and, when all of them succeeded, deletes
\* the wordbook document.  gone are the child deletes that succeeded, final
\* tells whether the last delete was issued and succeeded.
DeleteWordbook(b, gone, final) ==
    /\ gone \subseteq WordPaths(b)
    /\ final => gone = WordPaths(b)
    /\ op' = Op("deleteWordbook", b, gone, final)
    /\ ret' = Returned(final, Void)
    /\ wordbooks' = AfterDeleteWordbooks(gone, IF final THEN {b} ELSE {})[1]
    /\ words' = AfterDeleteWordbooks(gone, IF final THEN {b} ELSE {})[2]
    /\ UNCHANGED <<posTags, caches, now, nextWb, nextWord, nextTag, trashedOnce>>

TrashWordbook(b, t, ok) ==
    /\ ok => b \in DOMAIN wordbooks
    /\ now <= t /\ t <= MaxTime
    /\ op' = Op("trashWordbook", b, t, ok)
    /\ ret' = Returned(ok, Void)
    /\ now' = t
    /\ wordbooks' = IF ok
                    THEN [wordbooks EXCEPT ![b] =
                             Merge(@, [trashed |-> TRUE, trashedAt |-> <<t>>])]
                    ELSE wordbooks
    /\ trashedOnce' = IF ok THEN trashedOnce \cup {b} ELSE trashedOnce
    /\ UNCHANGED <<words, posTags, caches, nextWb, nextWord, nextTag>>

UpdateWordbookName(b, newName, ok) ==
    /\ ok => b \in DOMAIN wordbooks
    /\ op' = Op("updateWordbookName", b, newName, ok)
    /\ ret' = Returned(ok, Void)
    /\ wordbooks' = IF ok
                    THEN [wordbooks EXCEPT ![b] = Merge(@, [name |-> newName])]
                    ELSE wordbooks
    /\ UNCHANGED <<words, posTags, caches, now, nextWb, nextWord, nextTag, trashedOnce>>

\* mutant of ClearTargets: every wordbook is handed to deleteWordbook
ClearTargetsAll == DOMAIN wordbooks

\* the wordbooks clearTrashedWordbooks hands to deleteWordbook
ClearTargets == {ListTrashed[i].id : i \in 1..Len(ListTrashed)}

\* clearTrashedWordbooks: one deleteWordbook per trashed wordbook, all
\* awaited together.  gone and finals are the child deletes and the
\* wordbook deletes that succeeded (none when the first read fails); op.arg
\* is the set of wordbooks that were trashed when the call started.
ClearTrashedWordbooks(gone, finals, ok) ==
    LET targets == ClearTargets
        paths == UNION {WordPaths(b) : b \in targets}
    IN
    /\ gone \subseteq paths
    /\ finals \subseteq targets
    /\ \A b \in finals : WordPaths(b) \subseteq gone
    /\ ok => (gone = paths /\ finals = targets)
    /\ ~ok => (targets = {} \/ gone # paths \/ finals # targets)
    /\ op' = Op("clearTrashedWordbooks", 0, targets, ok)
    /\ ret' = Returned(ok, Void)
    /\ wordbooks' = AfterDeleteWordbooks(gone, finals)[1]
    /\ words' = AfterDeleteWordbooks(gone, finals)[2]
    /\ UNCHANGED <<posTags, caches, now, nextWb, nextWord, nextTag, trashedOnce>>

\* ------------------------------------------------------ part-of-speech tags
TagDoc(d) == [name |-> d.name, color |-> d.color, userId |-> User]

\* mutant of TagCachePush: an absent entry is created holding the new tag
TagCachePushOrInit(tag) ==
    IF User \in DOMAIN posTagCache
    THEN [posTagCache EXCEPT ![User] = Append(@, tag)]
    ELSE (User :> <<tag>>)

\* if (posTagCache[userId]) posTagCache[userId].push(tag)
TagCachePush(tag) ==
    IF User \in DOMAIN posTagCache
    THEN [posTagCache EXCEPT ![User] = Append(@, tag)]
    ELSE posTagCache

\* posTagCache[userId].map(t => t.id === tagId ? { ...t, ...data } : t)
TagCacheMerge(tagId, d) ==
    IF User \in DOMAIN posTagCache
    THEN [posTagCache EXCEPT ![User] =
             [i \in 1..Len(@) |-> IF @[i].id = tagId THEN Merge(@[i], d) ELSE @[i]]]
    ELSE posTagCache

\* posTagCache[userId].filter(t => t.id !== tagId)
TagCacheRemove(tagId) ==
    IF User \in DOMAIN posTagCache
    THEN [posTagCache EXCEPT ![User] = SelectSeq(@, LAMBDA t : t.id # tagId)]
    ELSE posTagCache

\* what getPartOfSpeechTags(User) returns when called in this state (its
\* read, if it issues one, succeeding)
GetTagsResult == IF User \in DOMAIN posTagCache THEN posTagCache[User] ELSE ReadTags

GetPartOfSpeechTags(ok) ==
    /\ IF User \in DOMAIN posTagCache
       THEN /\ ok
            /\ ret' = DocList(posTagCache[User])
            /\ op' = Op("getPartOfSpeechTags", 0, 0, TRUE)
            /\ UNCHANGED posTagCache
       ELSE IF ok
       THEN /\ posTagCache' = posTagCache @@ (User :> ReadTags)
            /\ ret' = DocList(ReadTags)
            /\ op' = Op("getPartOfSpeechTags", 0, 1, TRUE)
       ELSE /\ ret' = Rejected
            /\ op' = Op("getPartOfSpeechTags", 0, 1, FALSE)
            /\ UNCHANGED posTagCache
    /\ UNCHANGED <<store, wordCache, now, nextWb, nextWord, nextTag, trashedOnce>>

CreatePartOfSpeechTag(d, ok) ==
    LET tag == DocWithId(nextTag, TagDoc(d)) IN
    /\ nextTag <= MaxTags
    /\ op' = Op("createPartOfSpeechTag", 0, nextTag, ok)
    /\ IF ok
       THEN /\ posTags' = posTags @@ (nextTag :> TagDoc(d))
            /\ posTagCache' = TagCachePush(tag)
            /\ ret' = OneDoc(tag)
            /\ nextTag' = nextTag + 1
       ELSE /\ ret' = Rejected
            /\ UNCHANGED <<posTags, posTagCache, nextTag>>
    /\ UNCHANGED <<wordbooks, words, wordCache, now, nextWb, nextWord, trashedOnce>>

UpdatePartOfSpeechTag(tagId, d, ok) ==
    /\ ok => tagId \in DOMAIN posTags
    /\ op' = Op("updatePartOfSpeechTag", 0, tagId, ok)
    /\ ret' = Returned(ok, Void)
    /\ IF ok
       THEN /\ posTags' = [posTags EXCEPT ![tagId] = Merge(@, d)]
            /\ posTagCache' = TagCacheMerge(tagId, d)
       ELSE UNCHANGED <<posTags, posTagCache>>
    /\ UNCHANGED <<wordbooks, words, wordCache, now, nextWb, nextWord, nextTag, trashedOnce>>

\* mutant of TaggedPaths: the fan-out starts from getWordbooksByUserId, so
\* trashed wordbooks are skipped
TaggedPathsLive(tagId) ==
    {p \in DOMAIN words :
        /\ p[1] \in DOMAIN wordbooks /\ ~wordbooks[p[1]].trashed
        /\ tagId \in Range(words[p].partOfSpeech)}

\* query(wordsRef, where("partOfSpeech", "array-contains", tagId)), for
\* every wordbook document getDocs(wordbooksRef) returns
TaggedPaths(tagId) ==
    {p \in DOMAIN words :
        p[1] \in DOMAIN wordbooks /\ tagId \in Range(words[p].partOfSpeech)}

\* (data.partOfSpeech || []).filter(t => t !== tagId)
StripTag(pos, tagId) == SelectSeq(pos, LAMBDA t : t # tagId)

\* updateDoc(docSnap.ref, { partOfSpeech: updated }) on the documents of S
StripTagFrom(S, tagId) ==
    [p \in DOMAIN words |->
        IF p \in S
        THEN Merge(words[p], [partOfSpeech |-> StripTag(words[p].partOfSpeech, tagId)])
        ELSE words[p]]

\* deletePartOfSpeechTag: done are the Word updates that succeeded; final
\* tells whether the tag delete was issued (all updates succeeded) and
\* succeeded.  The tag cache is filtered after the tag delete only.
DeletePartOfSpeechTag(tagId, done, final) ==
    /\ done \subseteq TaggedPaths(tagId)
    /\ final => done = TaggedPaths(tagId)
    /\ op' = Op("deletePartOfSpeechTag", 0, tagId, final)
    /\ ret' = Returned(final, Void)
    /\ words' = StripTagFrom(done, tagId)
    /\ IF final
       THEN /\ posTags' = Without(posTags, {tagId})
            /\ posTagCache' = TagCacheRemove(tagId)
       ELSE UNCHANGED <<posTags, posTagCache>>
    /\ UNCHANGED <<wordbooks, wordCache, now, nextWb, nextWord, nextTag, trashedOnce>>

\* ------------------------------------------------- a second process
\* Another process (or tab) of the same user runs createWord, updateWord
\* and deleteWord: the store changes, this process's caches do not.
External(ws) ==
    /\ words' = ws
    /\ op' = Op("external", 0, 0, TRUE)
    /\ ret' = Void
    /\ UNCHANGED <<wordbooks, posTags, caches, now, nextWb, nextTag, trashedOnce>>

ExtCreateWord(b, d) ==
    /\ nextWord <= MaxWords
    /\ nextWord' = nextWord + 1
    /\ External(words @@ (<<b, nextWord>> :> NewWordDoc(d, b, now)))

ExtUpdateWord(b, wordId, d) ==
    /\ <<b, wordId>> \in DOMAIN words
    /\ UNCHANGED nextWord
    /\ External([words EXCEPT ![<<b, wordId>>] = Merge(@, d)])

ExtDeleteWord(b, wordId) ==
    /\ <<b, wordId>> \in DOMAIN words
    /\ UNCHANGED nextWord
    /\ External(Without(words, {<<b, wordId>>}))

\* ------------------------------------------------------ overlapping calls
\* An async function of the layer runs up to its await, is suspended while
\* the store call is in flight (an element of calls), and runs on when the
\* promise settles; other calls of the process run in between.  The store
\* applies a write at one moment and the process learns of it at a later
\* one, so two writes can be applied in one order and settle in the other.

\* updateWord up to its await: updateDoc(ref, updateData) is issued
UpdateWordSend(b, wordId, d) ==
    LET c == [name |-> "updateWord", wb |-> b, wordId |-> wordId, data |-> d,
              stage |-> "sent"]
    IN
    /\ Cardinality(calls) < MaxCalls
    /\ \A x \in calls : ~(x.wb = b /\ x.wordId = wordId /\ x.data = d)
    /\ calls' = calls \cup {c}
    /\ UNCHANGED <<layer, component>>

\* the store applies the updateDoc of the suspended call c; the write of a
\* document that does not exist fails
StoreAppliesUpdate(c) ==
    /\ c.name = "updateWord" /\ c.stage = "sent"
    /\ IF <<c.wb, c.wordId>> \in DOMAIN words
       THEN /\ words' = [words EXCEPT ![<<c.wb, c.wordId>>] = Merge(@, c.data)]
            /\ calls' = (calls \ {c}) \cup {[c EXCEPT !.stage = "applied"]}
       ELSE /\ calls' = (calls \ {c}) \cup {[c EXCEPT !.stage = "failed"]}
            /\ UNCHANGED words
    /\ UNCHANGED <<wordbooks, posTags, caches, now, nextWb, nextWord, nextTag,
                   op, ret, trashedOnce, component>>

\* the promise of call c settles and updateWord runs on: the cache entry
\* is rewritten in one go (nothing runs between its read and its write)
UpdateWordResume(c) ==
    LET key == makeCacheKey(User, c.wb)
        ok == c.stage = "applied"
    IN
    /\ c.name = "updateWord" /\ c.stage \in {"applied", "failed"}
    /\ calls' = calls \ {c}
    /\ op' = Op("updateWord", c.wb, c.wordId, ok)
    /\ ret' = Returned(ok, Void)
    /\ wordCache' = IF ok THEN CacheMerge(key, {c.wordId}, c.data) ELSE wordCache
    /\ UNCHANGED <<store, posTagCache, now, nextWb, nextWord, nextTag,
                   trashedOnce, component>>

\* deletePartOfSpeechTag up to the answer of getDocs(wordbooksRef): one
\* query per wordbook document is issued.  books are the wordbooks whose
\* query has not been answered, found the documents the answered queries
\* returned, each with the partOfSpeech list updateDoc is going to write.
DeletePartOfSpeechTagStart(tagId) ==
    LET c == [name |-> "deletePartOfSpeechTag", tagId |-> tagId,
              books |-> DOMAIN wordbooks, found |-> <<>>]
    IN
    /\ Cardinality(calls) < MaxCalls
    /\ \A x \in calls : x.tagId # tagId
    /\ calls' = calls \cup {c}
    /\ UNCHANGED <<layer, component>>

\* the query for the Words of wordbook b that list the tag is answered:
\* updated is computed from the data of each document returned
DeletePartOfSpeechTagQuery(c, b) ==
    LET hits == {p \in WordPaths(b) : c.tagId \in Range(words[p].partOfSpeech)}
        updated == [p \in hits |-> StripTag(words[p].partOfSpeech, c.tagId)]
    IN
    /\ c.name = "deletePartOfSpeechTag"
    /\ b \in c.books
    /\ calls' = (calls \ {c}) \cup
                    {[c EXCEPT !.books = @ \ {b}, !.found = @ @@ updated]}
    /\ UNCHANGED <<layer, component>>

\* updateDoc(docSnap.ref, { partOfSpeech: updated }) of one document found;
\* the update of a document deleted since rejects the call
DeletePartOfSpeechTagUpdate(c, p) ==
    /\ c.name = "deletePartOfSpeechTag"
    /\ p \in DOMAIN c.found
    /\ IF p \in DOMAIN words
       THEN /\ words' = [words EXCEPT ![p] = Merge(@, [partOfSpeech |-> c.found[p]])]
            /\ calls' = (calls \ {c}) \cup {[c EXCEPT !.found = Without(@, {p})]}
            /\ UNCHANGED <<op, ret>>
       ELSE /\ calls' = calls \ {c}
            /\ op' = Op("deletePartOfSpeechTag", 0, c.tagId, FALSE)
            /\ ret' = Rejected
            /\ UNCHANGED words
    /\ UNCHANGED <<wordbooks, posTags, caches, now, nextWb, nextWord, nextTag,
                   trashedOnce, component>>

\* every query is answered and every update done: deleteDoc(tagRef), then
\* the tag cache is filtered
DeletePartOfSpeechTagFinish(c) ==
    /\ c.name = "deletePartOfSpeechTag"
    /\ c.books = {} /\ DOMAIN c.found = {}
    /\ calls' = calls \ {c}
    /\ op' = Op("deletePartOfSpeechTag", 0, c.tagId, TRUE)
    /\ ret' = Void
    /\ posTags' = Without(posTags, {c.tagId})
    /\ posTagCache' = TagCacheRemove(c.tagId)
    /\ UNCHANGED <<wordbooks, words, wordCache, now, nextWb, nextWord, nextTag,
                   trashedOnce, component>>

\* getWordsByWordbookId up to its await: the cache holds no entry for the
\* key, getDocs(colRef) is issued
GetWordsByWordbookIdSend(b) ==
    LET c == [name |-> "getWordsByWordbookId", wb |-> b, stage |-> "sent",
              snapshot |-> <<>>]
    IN
    /\ Cardinality(calls) < MaxCalls
    /\ makeCacheKey(User, b) \notin DOMAIN wordCache
    /\ c \notin calls
    /\ calls' = calls \cup {c}
    /\ UNCHANGED <<layer, component>>

\* the store answers the getDocs of the suspended call c with the Word
\* documents it holds at that moment
StoreAnswersGetDocs(c) ==
    /\ c.name = "getWordsByWordbookId" /\ c.stage = "sent"
    /\ calls' = (calls \ {c}) \cup
                    {[c EXCEPT !.stage = "answered", !.snapshot = ReadWords(c.wb)]}
    /\ UNCHANGED <<layer, component>>

\* the promise of call c settles and getWordsByWordbookId runs on: the
\* documents of the snapshot are installed as the cache entry, whatever the
\* cache holds by now, and returned
GetWordsByWordbookIdResume(c) ==
    LET key == makeCacheKey(User, c.wb) IN
    /\ c.name = "getWordsByWordbookId" /\ c.stage = "answered"
    /\ calls' = calls \ {c}
    /\ op' = Op("getWordsByWordbookId", c.wb, 1, TRUE)
    /\ ret' = DocList(c.snapshot)
    /\ wordCache' = [k \in DOMAIN wordCache \cup {key} |->
                        IF k = key THEN c.snapshot ELSE wordCache[k]]
    /\ UNCHANGED <<store, posTagCache, now, nextWb, nextWord, nextTag,
                   trashedOnce, component>>

\* deleteWordbook up to its first await: getDocs(wordsRef) is issued
DeleteWordbookSend(b) ==
    LET c == [name |-> "deleteWordbook", wb |-> b, stage |-> "sent",
              found |-> {}, pending |-> {}]
    IN
    /\ Cardinality(calls) < MaxCalls
    /\ \A x \in calls : x.wb # b
    /\ calls' = calls \cup {c}
    /\ UNCHANGED <<layer, component>>

\* the store answers getDocs(wordsRef) with the child documents it holds at
\* that moment; one deleteDoc per document returned is issued
DeleteWordbookSnapshot(c) ==
    /\ c.name = "deleteWordbook" /\ c.stage = "sent"
    /\ calls' = (calls \ {c}) \cup
                    {[c EXCEPT !.stage = "children", !.found = WordPaths(c.wb),
                               !.pending = WordPaths(c.wb)]}
    /\ UNCHANGED <<layer, component>>

\* the store applies deleteDoc(d.ref) for one child document of the
\* snapshot (the delete of a document that is gone succeeds too)
DeleteWordbookChild(c, p) ==
    /\ c.name = "deleteWordbook" /\ c.stage = "children"
    /\ p \in c.pending
    /\ words' = Without(words, {p})
    /\ calls' = (calls \ {c}) \cup {[c EXCEPT !.pending = @ \ {p}]}
    /\ UNCHANGED <<wordbooks, posTags, caches, now, nextWb, nextWord, nextTag,
                   op, ret, trashedOnce, component>>

\* Promise.all has settled: deleteDoc(docRef) is issued and the store
\* applies it
DeleteWordbookDoc(c) ==
    /\ c.name = "deleteWordbook" /\ c.stage = "children"
    /\ c.pending = {}
    /\ wordbooks' = Without(wordbooks, {c.wb})
    /\ calls' = (calls \ {c}) \cup {[c EXCEPT !.stage = "deleted"]}
    /\ UNCHANGED <<words, posTags, caches, now, nextWb, nextWord, nextTag,
                   op, ret, trashedOnce, component>>

\* the promise of deleteDoc(docRef) settles and deleteWordbook returns
DeleteWordbookResume(c) ==
    /\ c.name = "deleteWordbook" /\ c.stage = "deleted"
    /\ calls' = calls \ {c}
    /\ op' = Op("deleteWordbook", c.wb, c.found, TRUE)
    /\ ret' = Void
    /\ UNCHANGED <<store, caches, now, nextWb, nextWord, nextTag,
                   trashedOnce, component>>

\* ------------------------------------------------- the WordList component
\* WordList({ wordbookId }) of word-list.tsx.  A handler runs up to its
\* await (the call is then an element of calls, holding what the closure
\* captured) and runs on when the call of the layer returns; the layer's
\* call is one step, taken when it returns.  The form fields other than the
\* word text keep their defaults.

\* a state that is a value or null: <<v>> or <<>>
Some(v) == <<v>>

\* the wordbookId prop
WordbookId == 1

\* a text is the sequence of its characters: what is typed into the create
\* form and into the edit form
NewTexts == {<<" ">>, <<"x">>}

EditTexts == {<<" ">>, <<" ", "y">>}

RECURSIVE TrimStart(_)
TrimStart(s) == IF s # <<>> /\ Head(s) = " " THEN TrimStart(Tail(s)) ELSE s

RECURSIVE TrimEnd(_)
TrimEnd(s) ==
    IF s # <<>> /\ s[Len(s)] = " " THEN TrimEnd(SubSeq(s, 1, Len(s) - 1)) ELSE s

\* String.prototype.trim
Trim(s) == TrimEnd(TrimStart(s))

\* w put into a list that is sorted newest first, behind the Words that
\* are not older
RECURSIVE InsertNewestFirst(_, _)
InsertNewestFirst(w, list) ==
    IF list = <<>> THEN <<w>>
    ELSE IF Head(list).createdAt[1] >= w.createdAt[1]
         THEN <<Head(list)>> \o InsertNewestFirst(w, Tail(list))
         ELSE <<w>> \o list

\* data.sort((a, b) => b.createdAt.toMillis() - a.createdAt.toMillis()):
\* a stable sort of the array itself
RECURSIVE SortNewestFirst(_)
SortNewestFirst(list) ==
    IF Len(list) = 0 THEN <<>>
    ELSE InsertNewestFirst(list[Len(list)],
                           SortNewestFirst(SubSeq(list, 1, Len(list) - 1)))

\* the array the words state refers to: load stores the array that
\* getWordsByWordbookId returned, which is the cache entry itself
Displayed ==
    IF uiShared THEN wordCache[makeCacheKey(User, WordbookId)] ELSE uiWords

\* the list is rendered only when neither loading nor error is set
Rendered == ~loading /\ error = Null

\* useAuth() delivers the user and the effect runs load(): setLoading(true),
\* setError(null), getWordsByWordbookId is called.  (While user is null,
\* load returns at once: the component stays as constructed.)
SignIn ==
    /\ user = Null
    /\ WordbookId \in DOMAIN wordbooks
    /\ Cardinality(calls) < MaxCalls
    /\ user' = Some(User)
    /\ loading' = TRUE
    /\ error' = Null
    /\ calls' = calls \cup
          {[name |-> "load",
            n |-> Min({i \in 1..MaxCalls : [name |-> "load", n |-> i] \notin calls})]}
    /\ UNCHANGED <<layer, uiWords, uiShared, createOpen, uiNewWord, creating,
                   editTarget, editWord, updating, deletingId>>

\* the user signs out: the effect runs load(), which returns at once
SignOut ==
    /\ user # Null
    /\ user' = Null
    /\ UNCHANGED <<layer, calls, uiWords, uiShared, loading, error, createOpen,
                   uiNewWord, creating, editTarget, editWord, updating, deletingId>>

\* getWordsByWordbookId returns to load: the array returned (the cache
\* entry) is sorted in place and becomes the words state
LoadReturn(c, ok) ==
    LET key == makeCacheKey(User, WordbookId)
        hit == key \in DOMAIN wordCache
        data == SortNewestFirst(GetWordsResult(WordbookId))
    IN
    /\ c.name = "load"
    /\ hit => ok
    /\ calls' = calls \ {c}
    /\ op' = Op("getWordsByWordbookId", WordbookId, IF hit THEN 0 ELSE 1, ok)
    /\ IF ok
       THEN /\ wordCache' = [k \in DOMAIN wordCache \cup {key} |->
                                IF k = key THEN data ELSE wordCache[k]]
            /\ ret' = DocList(data)
            /\ uiWords' = <<>>
            /\ uiShared' = TRUE
            /\ UNCHANGED error
       ELSE /\ ret' = Rejected
            /\ error' = Some("rejected")
            /\ UNCHANGED <<wordCache, uiWords, uiShared>>
    /\ loading' = FALSE
    /\ UNCHANGED <<store, posTagCache, now, nextWb, nextWord, nextTag, trashedOnce,
                   user, createOpen, uiNewWord, creating, editTarget, editWord,
                   updating, deletingId>>

\* the create dialog is opened
OpenCreate ==
    /\ Rendered /\ ~createOpen
    /\ createOpen' = TRUE
    /\ UNCHANGED <<layer, calls, user, uiWords, uiShared, loading, error, uiNewWord,
                   creating, editTarget, editWord, updating, deletingId>>

\* the cancel button: setCreateOpen(false)
CancelCreate ==
    /\ Rendered /\ createOpen
    /\ createOpen' = FALSE
    /\ UNCHANGED <<layer, calls, user, uiWords, uiShared, loading, error, uiNewWord,
                   creating, editTarget, editWord, updating, deletingId>>

\* onOpenChange(false): setCreateOpen(false) and resetCreateForm()
DismissCreate ==
    /\ Rendered /\ createOpen
    /\ createOpen' = FALSE
    /\ uiNewWord' = <<>>
    /\ UNCHANGED <<layer, calls, user, uiWords, uiShared, loading, error,
                   creating, editTarget, editWord, updating, deletingId>>

TypeNewWord(text) ==
    /\ Rendered /\ createOpen
    /\ uiNewWord' = text
    /\ UNCHANGED <<layer, calls, user, uiWords, uiShared, loading, error, createOpen,
                   creating, editTarget, editWord, updating, deletingId>>

\* disabled={creating || !newWord.trim()}
CreateEnabled == ~creating /\ Trim(uiNewWord) # <<>>

\* a click on the create button runs handleCreate up to its await
HandleCreate ==
    /\ Rendered /\ createOpen /\ CreateEnabled
    /\ nextWord <= MaxWords
    /\ Cardinality(calls) < MaxCalls
    /\ IF user = Null \/ Trim(uiNewWord) = <<>>
       THEN UNCHANGED <<creating, calls>>
       ELSE /\ creating' = TRUE
            /\ calls' = calls \cup
                  {[name |-> "handleCreate",
                    data |-> [word |-> Trim(uiNewWord), partOfSpeech |-> <<>>,
                              mastery |-> 0]]}
    /\ UNCHANGED <<layer, user, uiWords, uiShared, loading, error, createOpen,
                   uiNewWord, editTarget, editWord, updating, deletingId>>

\* mutant of HandleCreateReturn: setCreating(false) sits at the end of the
\* try block instead of in finally
HandleCreateReturnNoFinally(c, t, ok) ==
    /\ c.name = "handleCreate"
    /\ CreateWord(WordbookId, c.data, t, t, ok)
    /\ calls' = calls \ {c}
    /\ IF ok
       THEN /\ uiWords' = <<ret'.doc>> \o
                  (IF uiShared THEN wordCache'[makeCacheKey(User, WordbookId)]
                               ELSE uiWords)
            /\ uiShared' = FALSE
            /\ uiNewWord' = <<>>
            /\ createOpen' = FALSE
            /\ creating' = FALSE
       ELSE UNCHANGED <<uiWords, uiShared, uiNewWord, createOpen, creating>>
    /\ UNCHANGED <<user, loading, error, editTarget, editWord, updating, deletingId>>

\* createWord returns to handleCreate: setWords((prev) => [created, ...prev])
\* on the array of the words state, which createWord has pushed created
\* onto when that array is the cache entry; catch logs the rejection
HandleCreateReturn(c, t, ok) ==
    /\ c.name = "handleCreate"
    /\ CreateWord(WordbookId, c.data, t, t, ok)
    /\ calls' = calls \ {c}
    /\ IF ok
       THEN /\ uiWords' = <<ret'.doc>> \o
                  (IF uiShared THEN wordCache'[makeCacheKey(User, WordbookId)]
                               ELSE uiWords)
            /\ uiShared' = FALSE
            /\ uiNewWord' = <<>>
            /\ createOpen' = FALSE
       ELSE UNCHANGED <<uiWords, uiShared, uiNewWord, createOpen>>
    /\ creating' = FALSE
    /\ UNCHANGED <<user, loading, error, editTarget, editWord, updating, deletingId>>

\* openEdit(w) for a Word of the list
OpenEdit(w) ==
    /\ Rendered
    /\ w \in Range(Displayed)
    /\ editTarget' = Some(w)
    /\ editWord' = w.word
    /\ UNCHANGED <<layer, calls, user, uiWords, uiShared, loading, error, createOpen,
                   uiNewWord, creating, updating, deletingId>>

\* the edit dialog is open for the Word of the list with editTarget's id
EditOpen == editTarget # Null /\ editTarget[1].id \in Ids(Displayed)

TypeEditWord(text) ==
    /\ Rendered /\ EditOpen
    /\ editWord' = text
    /\ UNCHANGED <<layer, calls, user, uiWords, uiShared, loading, error, createOpen,
                   uiNewWord, creating, editTarget, updating, deletingId>>

\* the cancel button and onOpenChange(false): setEditTarget(null)
CancelEdit ==
    /\ Rendered /\ EditOpen
    /\ editTarget' = Null
    /\ UNCHANGED <<layer, calls, user, uiWords, uiShared, loading, error, createOpen,
                   uiNewWord, creating, editWord, updating, deletingId>>

\* mutant of SaveEnabled: the test of the text is lost
SaveEnabledAnyText == ~updating

\* disabled={updating || !editWord.trim()}
SaveEnabled == ~updating /\ Trim(editWord) # <<>>

\* a click on the save button runs handleUpdate up to its await
HandleUpdate ==
    /\ Rendered /\ EditOpen /\ SaveEnabled
    /\ Cardinality(calls) < MaxCalls
    /\ IF user = Null \/ editTarget = Null
       THEN UNCHANGED <<updating, calls>>
       ELSE /\ updating' = TRUE
            /\ calls' = calls \cup
                  {[name |-> "handleUpdate", wordId |-> editTarget[1].id,
                    data |-> [word |-> Trim(editWord),
                              partOfSpeech |-> editTarget[1].partOfSpeech,
                              mastery |-> editTarget[1].mastery]]}
    /\ UNCHANGED <<layer, user, uiWords, uiShared, loading, error, createOpen,
                   uiNewWord, creating, editTarget, editWord, deletingId>>

\* updateWord returns to handleUpdate: setWords((prev) => prev.map(...)) on
\* the array of the words state (updateWord has replaced the cache entry by
\* a new array, the old one is as it was); catch logs the rejection
HandleUpdateReturn(c, ok) ==
    /\ c.name = "handleUpdate"
    /\ UpdateWord(WordbookId, c.wordId, c.data, ok)
    /\ calls' = calls \ {c}
    /\ IF ok
       THEN /\ uiWords' = [i \in 1..Len(Displayed) |->
                              IF Displayed[i].id = c.wordId
                              THEN Merge(Displayed[i], c.data)
                              ELSE Displayed[i]]
            /\ uiShared' = FALSE
            /\ editTarget' = Null
       ELSE UNCHANGED <<uiWords, uiShared, editTarget>>
    /\ updating' = FALSE
    /\ UNCHANGED <<user, loading, error, createOpen, uiNewWord, creating, editWord,
                   deletingId>>

\* the delete of a Word of the list is confirmed: handleDelete(w.id) runs
\* up to its await
HandleDelete(wordId) ==
    /\ Rendered
    /\ wordId \in Ids(Displayed)
    /\ deletingId # Some(wordId)
    /\ [name |-> "handleDelete", wordId |-> wordId] \notin calls
    /\ Cardinality(calls) < MaxCalls
    /\ IF user = Null
       THEN UNCHANGED <<deletingId, calls>>
       ELSE /\ deletingId' = Some(wordId)
            /\ calls' = calls \cup {[name |-> "handleDelete", wordId |-> wordId]}
    /\ UNCHANGED <<layer, user, uiWords, uiShared, loading, error, createOpen,
                   uiNewWord, creating, editTarget, editWord, updating>>

\* the cancel button of the delete dialog: setDeletingId(null)
CancelDelete ==
    /\ Rendered
    /\ Len(Displayed) > 0
    /\ deletingId' = Null
    /\ UNCHANGED <<layer, calls, user, uiWords, uiShared, loading, error, createOpen,
                   uiNewWord, creating, editTarget, editWord, updating>>

\* deleteWord returns to handleDelete: setWords((prev) => prev.filter(...));
\* catch logs the rejection
HandleDeleteReturn(c, ok) ==
    /\ c.name = "handleDelete"
    /\ DeleteWord(WordbookId, c.wordId, ok)
    /\ calls' = calls \ {c}
    /\ IF ok
       THEN /\ uiWords' = SelectSeq(Displayed, LAMBDA w : w.id # c.wordId)
            /\ uiShared' = FALSE
       ELSE UNCHANGED <<uiWords, uiShared>>
    /\ deletingId' = Null
    /\ UNCHANGED <<user, loading, error, createOpen, uiNewWord, creating, editTarget,
                   editWord, updating>>

\* ------------------------------------------------------------ input sets
Times == now..MaxTime

\* Partial<Word>: study progress, and the wordbookId field the type allows
Studied == [mastery |-> 1, studyCount |-> 1, reviewDate |-> <<0>>]

Moved(b) == [wordbookId |-> b]

PlainWord == [word |-> "x", partOfSpeech |-> <<>>, mastery |-> 1]

TaggedWord(pos) == [word |-> "x", partOfSpeech |-> pos, mastery |-> 1]

Batches(D) == UNION {[1..n -> D] : n \in 0..MaxBatch}

PlainTag == [name |-> "n1", color |-> "red"]

Renamed == [name |-> "n2"]

NewWordbook == CreateWordbook("n1", now, now, TRUE)

\* -------------------------------------------------- the word operations
\* Words are created, imported, updated, reset and deleted in up to
\* MaxWordbooks wordbooks; the batched writes succeed or fail.
NextWords ==
    \/ Direct /\ NewWordbook
    \/ Direct /\ \E b \in WbIds : GetWordsByWordbookId(b, TRUE)
    \/ Direct /\ \E b \in WbIds, t1, t2 \in Times : CreateWord(b, PlainWord, t1, t2, TRUE)
    \/ Direct /\ \E b \in WbIds, w \in WordIds : UpdateWord(b, w, Studied, TRUE)
    \/ Direct /\ \E b \in WbIds, w \in WordIds : DeleteWord(b, w, TRUE)
    \/ Direct /\ \E b \in WbIds, ds \in Batches({PlainWord}), t \in Times, ok \in BOOLEAN :
          BulkImportWords(b, ds, t, ok)
    \/ Direct /\ \E b \in WbIds, ids \in SUBSET WordIds, ok \in BOOLEAN :
          ResetWordsProgress(b, ids, ok)
    \/ Direct /\ \E b \in WbIds, ids \in SUBSET WordIds, ok \in BOOLEAN :
          BulkDeleteWords(b, ids, ok)

SpecWords == Init /\ [][NextWords]_vars

\* ------------------------------------------- updateWord with Partial<Word>
\* The word operations with updateWord handed study progress or a
\* wordbookId, every store call succeeding.
NextMove ==
    \/ Direct /\ NewWordbook
    \/ Direct /\ \E b \in WbIds : GetWordsByWordbookId(b, TRUE)
    \/ Direct /\ \E b \in WbIds : CreateWord(b, PlainWord, now, now, TRUE)
    \/ Direct /\ \E b \in WbIds, w \in WordIds, d \in {Studied} \cup {Moved(x) : x \in WbIds} :
          UpdateWord(b, w, d, TRUE)
    \/ Direct /\ \E b \in WbIds, w \in WordIds : DeleteWord(b, w, TRUE)
    \/ Direct /\ \E b \in WbIds : BulkImportWords(b, <<PlainWord>>, now, TRUE)
    \/ Direct /\ \E b \in WbIds, ids \in SUBSET WordIds : ResetWordsProgress(b, ids, TRUE)
    \/ Direct /\ \E b \in WbIds, ids \in SUBSET WordIds : BulkDeleteWords(b, ids, TRUE)

SpecMove == Init /\ [][NextMove]_vars

\* ------------------------------------------------ the wordbook operations
\* Wordbooks are created, renamed, trashed and hard-deleted, with store
\* calls that succeed or fail; words are added to them and listed.
NextBooks ==
    \/ Direct /\ \E ok \in BOOLEAN : CreateWordbook("n1", now, now, ok)
    \/ Direct /\ \E ok \in BOOLEAN : GetWordbooksByUserId(ok)
    \/ Direct /\ \E ok \in BOOLEAN : GetTrashedWordbooksByUserId(ok)
    \/ Direct /\ \E b \in WbIds, ok \in BOOLEAN : GetWordbook(b, ok)
    \/ Direct /\ \E b \in WbIds, ok \in BOOLEAN : TrashWordbook(b, now, ok)
    \/ Direct /\ \E b \in WbIds, ok \in BOOLEAN : UpdateWordbookName(b, "n2", ok)
    \/ Direct /\ \E b \in WbIds, gone \in SUBSET DOMAIN words, final \in BOOLEAN :
          DeleteWordbook(b, gone, final)
    \/ Direct /\ \E gone \in SUBSET DOMAIN words, finals \in SUBSET DOMAIN wordbooks,
          ok \in BOOLEAN : ClearTrashedWordbooks(gone, finals, ok)
    \/ Direct /\ \E b \in WbIds : GetWordsByWordbookId(b, TRUE)
    \/ Direct /\ \E b \in WbIds : CreateWord(b, PlainWord, now, now, TRUE)
    \/ Direct /\ \E b \in WbIds, w \in WordIds : DeleteWord(b, w, TRUE)

SpecBooks == Init /\ [][NextBooks]_vars

\* ----------------------------------------------------- the tag operations
\* Tags are created, renamed and deleted while tagged words sit in live
\* and trashed wordbooks; deletePartOfSpeechTag succeeds or fails part-way.
NextTags ==
    \/ Direct /\ NewWordbook
    \/ Direct /\ \E b \in WbIds : TrashWordbook(b, now, TRUE)
    \/ Direct /\ \E b \in WbIds, pos \in PosLists : CreateWord(b, TaggedWord(pos), now, now, TRUE)
    \/ Direct /\ \E ok \in BOOLEAN : GetPartOfSpeechTags(ok)
    \/ Direct /\ CreatePartOfSpeechTag(PlainTag, TRUE)
    \/ Direct /\ \E t \in TagIds : UpdatePartOfSpeechTag(t, Renamed, TRUE)
    \/ Direct /\ \E t \in TagIds, done \in SUBSET DOMAIN words, final \in BOOLEAN :
          DeletePartOfSpeechTag(t, done, final)

SpecTags == Init /\ [][NextTags]_vars

\* ------------------------------------------------------- failing store calls
\* The nine mutating word and tag operations and the two cached reads on
\* one wordbook and one tag, each with store calls that succeed or fail.
NextFail ==
    \/ Direct /\ nextWb = 1 /\ NewWordbook
    \/ Direct /\ \E b \in WbIds, ok \in BOOLEAN : GetWordsByWordbookId(b, ok)
    \/ Direct /\ \E b \in WbIds, ok \in BOOLEAN : CreateWord(b, TaggedWord(<<1>>), now, now, ok)
    \/ Direct /\ \E b \in WbIds, w \in WordIds, ok \in BOOLEAN : UpdateWord(b, w, Studied, ok)
    \/ Direct /\ \E b \in WbIds, w \in WordIds, ok \in BOOLEAN : DeleteWord(b, w, ok)
    \/ Direct /\ \E b \in WbIds, ok \in BOOLEAN :
          BulkImportWords(b, <<TaggedWord(<<1>>)>>, now, ok)
    \/ Direct /\ \E b \in WbIds, ids \in SUBSET WordIds, ok \in BOOLEAN :
          ResetWordsProgress(b, ids, ok)
    \/ Direct /\ \E b \in WbIds, ids \in SUBSET WordIds, ok \in BOOLEAN :
          BulkDeleteWords(b, ids, ok)
    \/ Direct /\ \E ok \in BOOLEAN : GetPartOfSpeechTags(ok)
    \/ Direct /\ \E ok \in BOOLEAN : nextTag = 1 /\ CreatePartOfSpeechTag(PlainTag, ok)
    \/ Direct /\ \E t \in TagIds, ok \in BOOLEAN : UpdatePartOfSpeechTag(t, Renamed, ok)
    \/ Direct /\ \E t \in TagIds, done \in SUBSET DOMAIN words, final \in BOOLEAN :
          DeletePartOfSpeechTag(t, done, final)

SpecFail == Init /\ [][NextFail]_vars

\* ------------------------------------------------- with a second process
\* The word operations of this process, interleaved with the writes of a
\* second process on the same wordbooks.
NextExt ==
    \/ Direct /\ NewWordbook
    \/ Direct /\ \E b \in WbIds, ok \in BOOLEAN : GetWordsByWordbookId(b, ok)
    \/ Direct /\ \E b \in WbIds : CreateWord(b, PlainWord, now, now, TRUE)
    \/ Direct /\ \E b \in WbIds, w \in WordIds : UpdateWord(b, w, Studied, TRUE)
    \/ Direct /\ \E b \in WbIds, w \in WordIds : DeleteWord(b, w, TRUE)
    \/ Direct /\ \E b \in WbIds : BulkImportWords(b, <<PlainWord>>, now, TRUE)
    \/ Direct /\ \E b \in WbIds, ids \in SUBSET WordIds : ResetWordsProgress(b, ids, TRUE)
    \/ Direct /\ \E b \in WbIds, ids \in SUBSET WordIds : BulkDeleteWords(b, ids, TRUE)
    \/ Direct /\ \E b \in WbIds : ExtCreateWord(b, PlainWord)
    \/ Direct /\ \E b \in WbIds, w \in WordIds : ExtUpdateWord(b, w, Studied)
    \/ Direct /\ \E b \in WbIds, w \in WordIds : ExtDeleteWord(b, w)

SpecExt == Init /\ [][NextExt]_vars

\* ------------------------------------------------------- the two clock reads
\* Wordbooks and Words are created and imported while the clock advances
\* between the reading written to the store and the reading returned.
NextClock ==
    \/ Direct /\ \E t1, t2 \in Times : CreateWordbook("n1", t1, t2, TRUE)
    \/ Direct /\ \E b \in WbIds : GetWordsByWordbookId(b, TRUE)
    \/ Direct /\ \E b \in WbIds, t1, t2 \in Times : CreateWord(b, PlainWord, t1, t2, TRUE)
    \/ Direct /\ \E b \in WbIds, ds \in Batches({PlainWord}), t \in Times :
          BulkImportWords(b, ds, t, TRUE)

SpecClock == Init /\ [][NextClock]_vars

\* ------------------------------------------- one process, calls in sequence
\* Every word operation and the hard deletes of wordbooks, one call after
\* another, every store call succeeding, no second process.
NextSeq ==
    \/ Direct /\ NewWordbook
    \/ Direct /\ \E b \in WbIds : TrashWordbook(b, now, TRUE)
    \/ Direct /\ \E b \in WbIds : GetWordsByWordbookId(b, TRUE)
    \/ Direct /\ \E b \in WbIds : CreateWord(b, PlainWord, now, now, TRUE)
    \/ Direct /\ \E b \in WbIds, w \in WordIds : UpdateWord(b, w, Studied, TRUE)
    \/ Direct /\ \E b \in WbIds, w \in WordIds : DeleteWord(b, w, TRUE)
    \/ Direct /\ \E b \in WbIds : BulkImportWords(b, <<PlainWord>>, now, TRUE)
    \/ Direct /\ \E b \in WbIds, ids \in SUBSET WordIds : ResetWordsProgress(b, ids, TRUE)
    \/ Direct /\ \E b \in WbIds, ids \in SUBSET WordIds : BulkDeleteWords(b, ids, TRUE)
    \/ Direct /\ \E b \in WbIds : DeleteWordbook(b, WordPaths(b), TRUE)
    \/ Direct /\ ClearTrashedWordbooks(UNION {WordPaths(b) : b \in ClearTargets}, ClearTargets, TRUE)

SpecSeq == Init /\ [][NextSeq]_vars

\* -------------------------------------------- overlapping updateWord calls
\* One wordbook with listed Words; updateWord calls on them overlap, the
\* store applying the writes and the promises settling in any order.
Marks == {[mastery |-> 2], [mastery |-> 3], [studyCount |-> 1]}

NextOverlap ==
    \/ Direct /\ nextWb = 1 /\ NewWordbook
    \/ Direct /\ \E b \in WbIds : GetWordsByWordbookId(b, TRUE)
    \/ Direct /\ \E b \in WbIds : CreateWord(b, PlainWord, now, now, TRUE)
    \/ \E b \in WbIds, w \in WordIds, d \in Marks : UpdateWordSend(b, w, d)
    \/ \E c \in calls : StoreAppliesUpdate(c)
    \/ \E c \in calls : UpdateWordResume(c)

SpecOverlap == Init /\ [][NextOverlap]_vars

\* ------------------------------------- tag delete overlapping with writes
\* deletePartOfSpeechTag runs query by query and update by update while
\* createWord, bulkImportWords and updateWord calls of the process write
\* the id of a tag that is still stored into Words.
NextTagRace ==
    \/ Direct /\ NewWordbook
    \/ Direct /\ nextTag = 1 /\ CreatePartOfSpeechTag(PlainTag, TRUE)
    \/ Direct /\ \E b \in WbIds, t \in DOMAIN posTags :
          CreateWord(b, TaggedWord(<<t>>), now, now, TRUE)
    \/ Direct /\ \E b \in WbIds, t \in DOMAIN posTags :
          BulkImportWords(b, <<TaggedWord(<<t>>)>>, now, TRUE)
    \/ Direct /\ \E b \in WbIds, w \in WordIds, t \in DOMAIN posTags :
          UpdateWord(b, w, [partOfSpeech |-> <<t>>], TRUE)
    \/ \E t \in DOMAIN posTags : DeletePartOfSpeechTagStart(t)
    \/ \E c \in calls, b \in WbIds : DeletePartOfSpeechTagQuery(c, b)
    \/ \E c \in calls, p \in DOMAIN words : DeletePartOfSpeechTagUpdate(c, p)
    \/ \E c \in calls : DeletePartOfSpeechTagFinish(c)

SpecTagRace == Init /\ [][NextTagRace]_vars

\* ------------------------------- a cold read overlapping with mutations
\* getWordsByWordbookId on a wordbook without cache entry is suspended at
\* its getDocs while createWord and deleteWord calls of the process run to
\* their end; reads of a populated entry return at once.
NextColdRead ==
    \/ Direct /\ nextWb = 1 /\ NewWordbook
    \/ Direct /\ \E b \in WbIds : CreateWord(b, PlainWord, now, now, TRUE)
    \/ Direct /\ \E b \in WbIds, w \in WordIds : DeleteWord(b, w, TRUE)
    \/ Direct /\ \E b \in WbIds :
          /\ makeCacheKey(User, b) \in DOMAIN wordCache
          /\ GetWordsByWordbookId(b, TRUE)
    \/ \E b \in WbIds : GetWordsByWordbookIdSend(b)
    \/ \E c \in calls : StoreAnswersGetDocs(c)
    \/ \E c \in calls : GetWordsByWordbookIdResume(c)

SpecColdRead == Init /\ [][NextColdRead]_vars

\* ------------------------------ deleteWordbook overlapping with creates
\* deleteWordbook runs read by delete by delete while createWord and
\* bulkImportWords calls of the process on the same wordbook run to their
\* end.
NextDeleteRace ==
    \/ Direct /\ NewWordbook
    \/ Direct /\ \E b \in DOMAIN wordbooks \cup {c.wb : c \in calls} :
          CreateWord(b, PlainWord, now, now, TRUE)
    \/ Direct /\ \E b \in DOMAIN wordbooks \cup {c.wb : c \in calls} :
          BulkImportWords(b, <<PlainWord>>, now, TRUE)
    \/ \E b \in DOMAIN wordbooks : DeleteWordbookSend(b)
    \/ \E c \in calls : DeleteWordbookSnapshot(c)
    \/ \E c \in calls, p \in DOMAIN words : DeleteWordbookChild(c, p)
    \/ \E c \in calls : DeleteWordbookDoc(c)
    \/ \E c \in calls : DeleteWordbookResume(c)

SpecDeleteRace == Init /\ [][NextDeleteRace]_vars

\* ------------------------------------------------ the WordList in use
\* A wordbook is created, the user signs in and out, the list is loaded,
\* and Words are created, edited and deleted through the dialogs, the
\* calls of the layer succeeding or failing.
NextList ==
    \/ Direct /\ nextWb = 1 /\ NewWordbook
    \/ SignIn
    \/ SignOut
    \/ \E c \in calls, ok \in BOOLEAN : LoadReturn(c, ok)
    \/ OpenCreate
    \/ CancelCreate
    \/ DismissCreate
    \/ \E text \in NewTexts : TypeNewWord(text)
    \/ HandleCreate
    \/ \E c \in calls, ok \in BOOLEAN : HandleCreateReturn(c, now, ok)
    \/ \E w \in Range(Displayed) : OpenEdit(w)
    \/ \E text \in EditTexts : TypeEditWord(text)
    \/ CancelEdit
    \/ HandleUpdate
    \/ \E c \in calls, ok \in BOOLEAN : HandleUpdateReturn(c, ok)
    \/ \E w \in WordIds : HandleDelete(w)
    \/ CancelDelete
    \/ \E c \in calls, ok \in BOOLEAN : HandleDeleteReturn(c, ok)

SpecList == Init /\ [][NextList]_vars

\* every call of the layer that a handler awaits returns (the step of the
\* handler that follows takes the call out of calls)
ListFairness ==
    /\ \A i \in 1..MaxCalls :
          WF_calls(\E ok \in BOOLEAN :
                      /\ [name |-> "load", n |-> i] \in calls
                      /\ LoadReturn([name |-> "load", n |-> i], ok))
    /\ WF_calls(\E c \in calls, ok \in BOOLEAN : HandleCreateReturn(c, now, ok))
    /\ WF_calls(\E c \in calls, ok \in BOOLEAN : HandleUpdateReturn(c, ok))
    /\ \A w \in 1..MaxWords :
          WF_calls(\E ok \in BOOLEAN :
                      /\ [name |-> "handleDelete", wordId |-> w] \in calls
                      /\ HandleDeleteReturn([name |-> "handleDelete", wordId |-> w], ok))

\* The handlers of the WordList alone: the dialogs are opened and submitted
\* but never cancelled, and every awaited call of the layer returns.
NextFlags ==
    \/ Direct /\ nextWb = 1 /\ NewWordbook
    \/ SignIn
    \/ SignOut
    \/ \E c \in calls, ok \in BOOLEAN : LoadReturn(c, ok)
    \/ OpenCreate
    \/ TypeNewWord(<<"x">>)
    \/ HandleCreate
    \/ \E c \in calls, ok \in BOOLEAN : HandleCreateReturn(c, now, ok)
    \/ \E w \in Range(Displayed) : OpenEdit(w)
    \/ HandleUpdate
    \/ \E c \in calls, ok \in BOOLEAN : HandleUpdateReturn(c, ok)
    \/ \E w \in WordIds : HandleDelete(w)
    \/ \E c \in calls, ok \in BOOLEAN : HandleDeleteReturn(c, ok)

SpecFlags == Init /\ [][NextFlags]_vars /\ ListFairness

\* ---------------------------------------------------------------- claims
IsReset(w) == w.mastery = 0 /\ w.studyCount = 0 /\ w.reviewDate = Null

\* C3: after a successful resetWordsProgress(User, b, ids), every Word whose
\* id is in ids has mastery = 0, studyCount = 0 and reviewDate = null, and
\* every other Word is unchanged, in the store documents and in the list a
\* following getWordsByWordbookId returns (cache populated or not).
C3_ResetClearsListedOnly ==
    [][(op'.name = "resetWordsProgress" /\ op'.ok) =>
       LET b == op'.wb
           ids == op'.arg
           before == ListedWords(wordCache, words, b)
           after == ListedWords(wordCache', words', b)
       IN  /\ DOMAIN words' = DOMAIN words
           /\ \A id \in ids : <<b, id>> \in DOMAIN words'
           /\ \A p \in DOMAIN words :
                 IF p[1] = b /\ p[2] \in ids
                 THEN IsReset(words'[p])
                 ELSE words'[p] = words[p]
           /\ Len(after) = Len(before)
           /\ \A i \in 1..Len(before) :
                 IF before[i].id \in ids
                 THEN IsReset(after[i]) /\ after[i].id = before[i].id
                 ELSE after[i] = before[i]
      ]_vars

\* C3 witness: a reset has completed on a populated cache entry that holds a
\* listed Word (now reset) next to an unlisted Word with study progress.
C3_Witness ==
    /\ op.name = "resetWordsProgress" /\ op.ok
    /\ makeCacheKey(User, op.wb) \in DOMAIN wordCache
    /\ \E i, j \in 1..Len(wordCache[makeCacheKey(User, op.wb)]) :
          LET l == wordCache[makeCacheKey(User, op.wb)] IN
          /\ l[i].id \in op.arg /\ IsReset(l[i])
          /\ l[j].id \notin op.arg /\ l[j].studyCount = 1
          /\ words[<<op.wb, l[j].id>>].studyCount = 1

\* C4: bulkImportWords of N items on a wordbook without cache entry, then
\* getWordsByWordbookId: the list holds all N imported Words, with distinct
\* ids, the target wordbookId, reviewDate = null, studyCount = 0 and one
\* shared createdAt.
C4_ImportThenList ==
    [][(/\ op'.name = "bulkImportWords" /\ op'.ok
        /\ makeCacheKey(User, op'.wb) \notin DOMAIN wordCache) =>
       LET b == op'.wb
           listed == ListedWords(wordCache', words', b)
       IN  /\ Len(ret'.list) = op'.arg
           /\ \A i \in 1..Len(ret'.list) :
                 /\ ret'.list[i] \in Range(listed)
                 /\ <<b, ret'.list[i].id>> \in DOMAIN words' \ DOMAIN words
                 /\ ret'.list[i].wordbookId = b
                 /\ ret'.list[i].reviewDate = Null
                 /\ ret'.list[i].studyCount = 0
                 /\ \A j \in 1..Len(ret'.list) :
                       /\ ret'.list[j].createdAt = ret'.list[i].createdAt
                       /\ i # j => ret'.list[j].id # ret'.list[i].id
      ]_vars

\* C4 witness: an import of two items, stamped after the clock advanced, is
\* the whole cache entry of its wordbook (the entry was initialised by it).
C4_Witness ==
    /\ op.name = "bulkImportWords" /\ op.ok /\ op.arg = 2
    /\ makeCacheKey(User, op.wb) \in DOMAIN wordCache
    /\ wordCache[makeCacheKey(User, op.wb)] = ret.list
    /\ ret.list[1].createdAt = <<1>>

\* C8: bulkImportWords, resetWordsProgress and bulkDeleteWords apply all of
\* their writes or none (a reset naming an id without document applies
\* nothing), and change the cache entry only when the batch committed.
C8_BatchAllOrNothing ==
    [][/\ op'.name = "bulkImportWords" =>
            IF op'.ok
            THEN /\ DOMAIN words' =
                      DOMAIN words \cup {<<op'.wb, ret'.list[i].id>> : i \in 1..Len(ret'.list)}
                 /\ Cardinality(DOMAIN words' \ DOMAIN words) = op'.arg
                 /\ \A p \in DOMAIN words : words'[p] = words[p]
            ELSE words' = words
       /\ op'.name = "resetWordsProgress" =>
            IF op'.ok
            THEN \A id \in op'.arg :
                    /\ <<op'.wb, id>> \in DOMAIN words
                    /\ IsReset(words'[<<op'.wb, id>>])
            ELSE words' = words
       /\ (/\ op'.name = "resetWordsProgress"
           /\ \E id \in op'.arg : <<op'.wb, id>> \notin DOMAIN words) =>
              ~op'.ok /\ words' = words
       /\ op'.name = "bulkDeleteWords" =>
            IF op'.ok
            THEN /\ \A id \in op'.arg : <<op'.wb, id>> \notin DOMAIN words'
                 /\ \A p \in DOMAIN words' : p \in DOMAIN words /\ words'[p] = words[p]
            ELSE words' = words
       /\ (/\ op'.name \in {"bulkImportWords", "resetWordsProgress", "bulkDeleteWords"}
           /\ wordCache' # wordCache) => op'.ok
      ]_vars

\* C8 witness: a reset naming one stored, studied Word and one id without
\* document has failed, and the stored Word still has its progress.
C8_Witness ==
    /\ op.name = "resetWordsProgress" /\ ~op.ok
    /\ \E i, j \in op.arg :
          /\ <<op.wb, i>> \in DOMAIN words /\ words[<<op.wb, i>>].studyCount = 1
          /\ <<op.wb, j>> \notin DOMAIN words

\* C9: every stored Word document has wordbookId equal to the wordbook of
\* its path, and every cached Word has wordbookId equal to the wordbook of
\* its cache entry, after any sequence of createWord, bulkImportWords,
\* updateWord (any Partial<Word>), resetWordsProgress and deletes.
C9_WordbookIdMatchesPath ==
    /\ \A p \in DOMAIN words : words[p].wordbookId = p[1]
    /\ \A key \in DOMAIN wordCache :
          \A i \in 1..Len(wordCache[key]) : wordCache[key][i].wordbookId = key[2]

\* C1: after a successful deleteWordbook(User, b), getWordbook(User, b)
\* returns null and getWordsByWordbookId(User, b) returns an empty list,
\* whatever operations preceded the delete.
C1_DeletedWordbookIsEmpty ==
    (op.name = "deleteWordbook" /\ op.ok) =>
        /\ WordbookOrNull(op.wb) = Null
        /\ GetWordsResult(op.wb) = <<>>

Others(pos, tagId) == SelectSeq(pos, LAMBDA t : t # tagId)

\* C2: after a successful deletePartOfSpeechTag(User, tagId), no Word
\* document under a wordbook of the user (trashed ones included) lists
\* tagId, every other element of the lists is kept, and
\* getPartOfSpeechTags(User) returns no tag with id tagId, whether or not
\* the tag cache was populated.
C2_TagDeleteStripsEveryWord ==
    [][(op'.name = "deletePartOfSpeechTag" /\ op'.ok) =>
       LET tagId == op'.arg IN
       /\ DOMAIN words' = DOMAIN words
       /\ \A p \in DOMAIN words :
             /\ p[1] \in DOMAIN wordbooks =>
                   tagId \notin Range(words'[p].partOfSpeech)
             /\ Others(words'[p].partOfSpeech, tagId) =
                   Others(words[p].partOfSpeech, tagId)
             /\ Merge(words'[p], [partOfSpeech |-> <<>>]) =
                   Merge(words[p], [partOfSpeech |-> <<>>])
       /\ tagId \notin DOMAIN posTags'
       /\ tagId \notin Ids(GetTagsResult')
       /\ (User \in DOMAIN posTagCache') = (User \in DOMAIN posTagCache)
      ]_vars

\* C2 witness: tag 1 has been deleted with the tag cache populated, and a
\* Word of a trashed wordbook that was created with <<2, 1>> now lists <<2>>.
C2_Witness ==
    /\ op.name = "deletePartOfSpeechTag" /\ op.ok /\ op.arg = 1
    /\ User \in DOMAIN posTagCache
    /\ \E p \in DOMAIN words :
          /\ p[1] \in DOMAIN wordbooks /\ wordbooks[p[1]].trashed
          /\ words[p].partOfSpeech = <<2>>

\* C5: once trashWordbook(User, b) has succeeded, no getWordbooksByUserId
\* returns b, after any operations; while its document exists b is returned
\* by getTrashedWordbooksByUserId; trashing changes neither the Word
\* documents nor the wordbook's name.  (What the two list functions would
\* return is looked at after every step that changes a wordbook document or
\* trashes a wordbook; no wordbook is trashed initially.)
C5_TrashIsOneWay ==
    [][/\ (op'.name = "getWordbooksByUserId" /\ op'.ok) =>
             Ids(ret'.list) \cap trashedOnce' = {}
       /\ (wordbooks' # wordbooks \/ trashedOnce' # trashedOnce) =>
             /\ trashedOnce' \cap Ids(ListWordbooks') = {}
             /\ (trashedOnce' \cap DOMAIN wordbooks') \subseteq Ids(ListTrashed')
       /\ (op'.name = "trashWordbook" /\ op'.ok) =>
             /\ op'.wb \in trashedOnce'
             /\ words' = words
             /\ DOMAIN wordbooks' = DOMAIN wordbooks
             /\ wordbooks'[op'.wb].name = wordbooks[op'.wb].name
      ]_vars

\* C5 witness: getWordbooksByUserId has returned a wordbook while another
\* one, trashed earlier and renamed since, is still stored.
C5_Witness ==
    /\ op.name = "getWordbooksByUserId" /\ op.ok /\ Len(ret.list) = 1
    /\ \E b \in trashedOnce :
          /\ b \in DOMAIN wordbooks /\ wordbooks[b].name = "n2"
          /\ \E p \in DOMAIN words : p[1] = b

\* C6: once getWordsByWordbookId has populated the entry of a wordbook, a
\* later call returns the entry without a store read, whatever a second
\* process wrote to the store in between; the writes of the second process
\* leave the cache alone and no operation removes a cache entry.
C6_CachedListIsReturnedStale ==
    [][/\ \A key \in DOMAIN wordCache : key \in DOMAIN wordCache'
       /\ (/\ op'.name = "getWordsByWordbookId"
           /\ makeCacheKey(User, op'.wb) \in DOMAIN wordCache) =>
              /\ op'.ok
              /\ op'.arg = 0
              /\ ret' = DocList(wordCache[makeCacheKey(User, op'.wb)])
              /\ wordCache' = wordCache
       /\ op'.name = "external" => wordCache' = wordCache
      ]_vars

\* C6 witness: a cache hit has returned a Word without study progress whose
\* stored document a second process has updated since.
C6_Witness ==
    /\ op.name = "getWordsByWordbookId" /\ op.ok /\ op.arg = 0
    /\ \E i \in 1..Len(ret.list) :
          /\ ret.list[i].studyCount = 0 /\ ret.list[i].mastery = 1
          /\ <<op.wb, ret.list[i].id>> \in DOMAIN words
          /\ words[<<op.wb, ret.list[i].id>>].studyCount = 1

MutatingOps ==
    {"createWord", "updateWord", "deleteWord", "bulkImportWords",
     "resetWordsProgress", "bulkDeleteWords", "createPartOfSpeechTag",
     "updatePartOfSpeechTag", "deletePartOfSpeechTag"}

\* C7: when a store call of one of the nine mutating word and tag
\* operations fails, the operation rejects towards its caller and the word
\* cache and the tag cache are as they were before the call.
C7_FailureLeavesCaches ==
    [][(op'.name \in MutatingOps /\ ~op'.ok) =>
          /\ ret' = Rejected
          /\ wordCache' = wordCache
          /\ posTagCache' = posTagCache
      ]_vars

\* C7 witness: deletePartOfSpeechTag has failed after stripping the tag from
\* a stored Word, with both caches populated and the cached Word and the
\* cached tag still there.
C7_Witness ==
    /\ op.name = "deletePartOfSpeechTag" /\ ~op.ok
    /\ User \in DOMAIN posTagCache /\ op.arg \in Ids(posTagCache[User])
    /\ \E key \in DOMAIN wordCache : \E i \in 1..Len(wordCache[key]) :
          /\ op.arg \in Range(wordCache[key][i].partOfSpeech)
          /\ <<key[2], wordCache[key][i].id>> \in DOMAIN words
          /\ words[<<key[2], wordCache[key][i].id>>].partOfSpeech = <<>>

\* C10: after a successful clearTrashedWordbooks(User) the store holds no
\* wordbook with trashed = true and no Word document under a wordbook that
\* was trashed when the call started; every other wordbook and its Words
\* are unchanged.
C10_ClearRemovesTrashedOnly ==
    [][(op'.name = "clearTrashedWordbooks" /\ op'.ok) =>
          /\ \A b \in DOMAIN wordbooks' : ~wordbooks'[b].trashed
          /\ \A p \in DOMAIN words' :
                ~(p[1] \in DOMAIN wordbooks /\ wordbooks[p[1]].trashed)
          /\ \A b \in DOMAIN wordbooks :
                ~wordbooks[b].trashed =>
                    b \in DOMAIN wordbooks' /\ wordbooks'[b] = wordbooks[b]
          /\ \A p \in DOMAIN words :
                (p[1] \in DOMAIN wordbooks /\ ~wordbooks[p[1]].trashed) =>
                    p \in DOMAIN words' /\ words'[p] = words[p]
      ]_vars

\* C10 witness: the trash held a wordbook that had been given a Word, it
\* has been emptied, and a live wordbook still has its Word.
C10_Witness ==
    /\ op.name = "clearTrashedWordbooks" /\ op.ok /\ op.arg # {}
    /\ \E b \in op.arg :
          /\ makeCacheKey(User, b) \in DOMAIN wordCache
          /\ wordCache[makeCacheKey(User, b)] # <<>>
    /\ \E p \in DOMAIN words : p[1] \in DOMAIN wordbooks

\* C14: a successful createWord(User, b, fields) stores a document and
\* returns a Word, both with wordbookId = b, reviewDate = null and
\* studyCount = 0; the returned Word is appended to the cache entry of
\* (User, b) exactly when the entry exists, an absent entry stays absent,
\* and a getWordsByWordbookId on an absent entry reads the store.
C14_CreateAppendsIfCached ==
    [][/\ (op'.name = "createWord" /\ op'.ok) =>
            LET b == op'.wb
                id == op'.arg
                key == makeCacheKey(User, b)
            IN  /\ DOMAIN words' = DOMAIN words \cup {<<b, id>>}
                /\ <<b, id>> \notin DOMAIN words
                /\ \A p \in DOMAIN words : words'[p] = words[p]
                /\ words'[<<b, id>>].wordbookId = b
                /\ words'[<<b, id>>].reviewDate = Null
                /\ words'[<<b, id>>].studyCount = 0
                /\ ret'.doc.id = id
                /\ ret'.doc.wordbookId = b
                /\ ret'.doc.reviewDate = Null
                /\ ret'.doc.studyCount = 0
                /\ DOMAIN wordCache' = DOMAIN wordCache
                /\ \A k \in DOMAIN wordCache :
                      wordCache'[k] = IF k = key
                                      THEN Append(wordCache[k], ret'.doc)
                                      ELSE wordCache[k]
       /\ (/\ op'.name = "getWordsByWordbookId"
           /\ makeCacheKey(User, op'.wb) \notin DOMAIN wordCache) =>
              op'.arg = 1
      ]_vars

\* C14 witness: createWord has appended its Word to a populated entry while
\* another wordbook holds a stored Word and has no entry.
C14_Witness ==
    /\ op.name = "createWord" /\ op.ok
    /\ makeCacheKey(User, op.wb) \in DOMAIN wordCache
    /\ Len(wordCache[makeCacheKey(User, op.wb)]) = 1
    /\ wordCache[makeCacheKey(User, op.wb)][1] = ret.doc
    /\ \E p \in DOMAIN words :
          p[1] # op.wb /\ makeCacheKey(User, p[1]) \notin DOMAIN wordCache

\* C15: when deleteWordbook(User, b) fails, the call rejects, the wordbook
\* documents are as before (the wordbook document is still stored) and the
\* child Words whose delete succeeded stay deleted, the others stay stored;
\* the failure of the final delete alone leaves the wordbook without Words.
C15_DeleteWordbookNotAtomic ==
    [][(op'.name = "deleteWordbook" /\ ~op'.ok) =>
          /\ ret' = Rejected
          /\ wordbooks' = wordbooks
          /\ op'.arg \subseteq WordPaths(op'.wb)
          /\ words' = Without(words, op'.arg)
      ]_vars

\* C15 witness: a deleteWordbook has failed with one child Word deleted and
\* another one, like the wordbook document, still stored.
C15_Witness ==
    /\ op.name = "deleteWordbook" /\ ~op.ok
    /\ op.arg # {}
    /\ op.wb \in DOMAIN wordbooks
    /\ WordPaths(op.wb) # {}

\* C18: the createdAt of the record createWordbook returns, and of the Word
\* createWord returns and appends to the cache, is never earlier than the
\* createdAt stored; every Word one bulkImportWords call returns carries
\* the createdAt stored for it.
C18_ReturnedStampNotEarlier ==
    [][/\ (op'.name = "createWordbook" /\ op'.ok) =>
             ret'.doc.createdAt[1] >= wordbooks'[op'.wb].createdAt[1]
       /\ (op'.name = "createWord" /\ op'.ok) =>
             /\ ret'.doc.createdAt[1] >= words'[<<op'.wb, op'.arg>>].createdAt[1]
             /\ makeCacheKey(User, op'.wb) \in DOMAIN wordCache' =>
                   ret'.doc \in Range(wordCache'[makeCacheKey(User, op'.wb)])
       /\ (op'.name = "bulkImportWords" /\ op'.ok) =>
             \A i \in 1..Len(ret'.list) :
                ret'.list[i].createdAt = words'[<<op'.wb, ret'.list[i].id>>].createdAt
      ]_vars

\* C18 witness: createWord has returned and cached a Word stamped later
\* than its stored document, in a wordbook whose returned record was
\* stamped later than its stored document too.
C18_Witness ==
    /\ op.name = "createWord" /\ op.ok
    /\ ret.doc.createdAt = <<1>>
    /\ words[<<op.wb, op.arg>>].createdAt = <<0>>
    /\ makeCacheKey(User, op.wb) \in DOMAIN wordCache
    /\ ret.doc \in Range(wordCache[makeCacheKey(User, op.wb)])

\* C19: in one process whose calls run in sequence, without a second
\* process, the Word ids of every cache entry are the Word ids stored under
\* its wordbook.
C19_CacheIdsMatchStore ==
    \A key \in DOMAIN wordCache :
       Ids(wordCache[key]) = {p[2] : p \in WordPaths(key[2])}

\* C16: when the promise of an updateWord call settles, the cache entry of
\* its wordbook gets the values of that call for the Word updated (so the
\* call that settles last decides the cached value, whatever the order in
\* which the store applied the writes), every other field of that Word and
\* every other cached Word stay as they were, and no other step of an
\* updateWord call touches the cache.
C16_LastSettledWinsInCache ==
    [][/\ \A c \in calls :
             (c \notin calls' /\ c.name = "updateWord" /\ c.stage = "applied") =>
                /\ DOMAIN wordCache' = DOMAIN wordCache
                /\ \A k \in DOMAIN wordCache :
                      /\ Len(wordCache'[k]) = Len(wordCache[k])
                      /\ \A i \in 1..Len(wordCache[k]) :
                            IF k = makeCacheKey(User, c.wb) /\ wordCache[k][i].id = c.wordId
                            THEN /\ DOMAIN wordCache'[k][i] = DOMAIN wordCache[k][i]
                                 /\ \A f \in DOMAIN wordCache[k][i] :
                                       wordCache'[k][i][f] =
                                          IF f \in DOMAIN c.data
                                          THEN c.data[f]
                                          ELSE wordCache[k][i][f]
                            ELSE wordCache'[k][i] = wordCache[k][i]
       /\ (\E c \in calls' : c \notin calls) => wordCache' = wordCache
      ]_vars

\* C16 witness: two overlapping updateWord calls on the mastery of one Word
\* have both completed, and the cache entry holds the value of one call
\* while the store holds the value of the other, next to a studyCount
\* update that both hold.
C16_Witness ==
    /\ calls = {}
    /\ op.name = "updateWord" /\ op.ok
    /\ makeCacheKey(User, op.wb) \in DOMAIN wordCache
    /\ \E i \in 1..Len(wordCache[makeCacheKey(User, op.wb)]) :
          LET w == wordCache[makeCacheKey(User, op.wb)][i] IN
          /\ w.id = op.arg
          /\ w.mastery = 2
          /\ words[<<op.wb, w.id>>].mastery = 3
          /\ w.studyCount = 1
          /\ words[<<op.wb, w.id>>].studyCount = 1

\* C17: after deletePartOfSpeechTag(User, tagId) has completed, no Word
\* document under a wordbook of the user lists tagId, also when createWord,
\* bulkImportWords or updateWord calls wrote tagId while the delete ran.
C17_TagGoneDespiteOverlap ==
    (op.name = "deletePartOfSpeechTag" /\ op.ok) =>
        \A p \in DOMAIN words :
           p[1] \in DOMAIN wordbooks => op.arg \notin Range(words[p].partOfSpeech)

InFlight(name) == \E c \in calls : c.name = name

\* C11: the step that ends a handleCreate, handleUpdate or handleDelete
\* leaves creating = false, updating = false, deletingId = null, and the
\* step that ends a load leaves loading = false, whether the call of the
\* layer succeeded or failed; and, every call of the layer returning, each
\* started handler and each started load comes to that end.
C11_FlagsAreReset ==
    /\ [][\A c \in calls :
             c \notin calls' =>
                /\ c.name = "handleCreate" => ~creating'
                /\ c.name = "handleUpdate" => ~updating'
                /\ c.name = "handleDelete" => deletingId' = Null
                /\ c.name = "load" => ~loading'
          ]_calls
    /\ creating ~> ~creating
    /\ updating ~> ~updating
    /\ InFlight("handleCreate") ~> ~InFlight("handleCreate")
    /\ InFlight("handleUpdate") ~> ~InFlight("handleUpdate")
    /\ \A w \in 1..MaxWords :
          ([name |-> "handleDelete", wordId |-> w] \in calls)
             ~> ([name |-> "handleDelete", wordId |-> w] \notin calls)
    /\ \A i \in 1..MaxCalls :
          ([name |-> "load", n |-> i] \in calls)
             ~> ([name |-> "load", n |-> i] \notin calls)

\* C11 witness: an updateWord has failed, handleUpdate has ended and the
\* three flags are reset while the edit dialog is still open on the list.
C11_Witness ==
    /\ op.name = "updateWord" /\ ~op.ok
    /\ calls = {}
    /\ ~creating /\ ~updating /\ deletingId = Null /\ ~loading
    /\ editTarget # Null

\* C12: when the createWord, updateWord or deleteWord call of a handler has
\* failed, the error state of the component is set.
C12_FailureSetsError ==
    (op.name \in {"createWord", "updateWord", "deleteWord"} /\ ~op.ok) =>
        error # Null

\* C13: every createWord and updateWord call of the component carries a
\* word text that is not empty after trimming, and no stored or listed
\* Word has such a text.
C13_NoEmptyWordText ==
    /\ \A c \in calls :
          c.name \in {"handleCreate", "handleUpdate"} => Trim(c.data.word) # <<>>
    /\ \A p \in DOMAIN words : Trim(words[p].word) # <<>>
    /\ \A i \in 1..Len(Displayed) : Trim(Displayed[i].word) # <<>>

\* C13 witness: handleUpdate awaits an updateWord that carries the trimmed
\* text of an edit form holding a text with a leading blank.
C13_Witness ==
    /\ updating
    /\ editWord = <<" ", "y">>
    /\ \E c \in calls : c.name = "handleUpdate" /\ c.data.word = <<"y">>

\* C20: the displayed list never holds two entries with the same id, after
\* any sequence of load, handleCreate, handleUpdate and handleDelete.
C20_NoDuplicateIds ==
    Cardinality(Ids(Displayed)) = Len(Displayed)

\* C21: after a successful deletePartOfSpeechTag(User, tagId), no Word of a
\* list that getWordsByWordbookId(User, b) returns, for any wordbook b of the
\* user, lists tagId, also when the word cache entry of b was populated
\* before the delete.
C21_TagGoneFromReturnedLists ==
    (op.name = "deletePartOfSpeechTag" /\ op.ok) =>
        \A b \in DOMAIN wordbooks :
           \A w \in Range(GetWordsResult(b)) : op.arg \notin Range(w.partOfSpeech)

\* C24: with the calls of one process run one after another and no other
\* writer, whenever the tag cache entry of the user exists it holds exactly
\* the tags stored for the user (same ids, names and colors, each once),
\* after any sequence of getPartOfSpeechTags, createPartOfSpeechTag,
\* updatePartOfSpeechTag and deletePartOfSpeechTag; and createPartOfSpeechTag
\* on an absent entry leaves it absent.  (The entry is absent initially and
\* is looked at after every step.)
C24_TagCacheMatchesStore ==
    [][/\ User \in DOMAIN posTagCache' =>
             /\ Range(posTagCache'[User]) = Range(ReadTags')
             /\ Len(posTagCache'[User]) = Len(ReadTags')
       /\ (op'.name = "createPartOfSpeechTag" /\ User \notin DOMAIN posTagCache) =>
             User \notin DOMAIN posTagCache'
      ]_vars

\* C24 witness: with the entry populated, a tag was created and renamed and
\* another one deleted; the entry holds the renamed tag only.
C24_Witness ==
    /\ op.name = "deletePartOfSpeechTag" /\ op.ok
    /\ User \in DOMAIN posTagCache
    /\ Len(posTagCache[User]) = 1
    /\ posTagCache[User][1].name = "n2"
    /\ posTagCache[User][1].id = 2

\* C22: when a getWordsByWordbookId on a wordbook without cache entry
\* overlaps with createWord or deleteWord calls of the process on that
\* wordbook, then once all the calls have completed the cache entry holds
\* the Words the store holds: the created Word is in it, the deleted one
\* is not.
C22_ColdReadAgreesWithStore ==
    calls = {} =>
        \A b \in DOMAIN wordbooks :
           makeCacheKey(User, b) \in DOMAIN wordCache =>
              Ids(wordCache[makeCacheKey(User, b)]) = Ids(ReadWords(b))

\* C23: when deleteWordbook(User, b) has completed, the store holds no Word
\* document under the path of b, also when createWord or bulkImportWords
\* calls on b commit after deleteWordbook read the child Words, before or
\* after it deleted the wordbook document.
C23_NoWordLeftAfterDelete ==
    (op.name = "deleteWordbook" /\ op.ok) => WordPaths(op.wb) = {}

====
